---- MODULE Spec2Model ----
(***************************************************************************)
(* A model of app/user/services.py: the user CRUD service (create, update, *)
(* authenticate), the follow relation, and the e-mail helpers.             *)
(*                                                                         *)
(* The database is the sequence `users`: row i is the user whose id is i   *)
(* (ids are assigned in order and no operation of this file deletes a      *)
(* row).  `last` is the observable outcome of the most recent call: what   *)
(* was called, with which arguments, what it raised and what it returned.  *)
(***************************************************************************)
EXTENDS Integers, Sequences, FiniteSets, TLC

VARIABLES users, last, settings, outbox, sess

vars == <<users, last, settings, outbox, sess>>

\* ---------------------------------------------------------------- bounds
MaxUsers == 2
MaxSent == 2

\* ---------------------------------------------------------------- inputs
EmailSeq == <<"a@x", "b@x", "c@x">>
Emails == {EmailSeq[i] : i \in 1..Len(EmailSeq)}
Passwords == {"", "p1", "p2"}
ActionNames == {"follow", "unfollow", "block"}
PayloadKeys == {"password", "email"}

None == 0
Ids == 1..MaxUsers
NoCall == [op |-> "none"]

Range(s) == {s[i] : i \in 1..Len(s)}

\* ------------------------------------------------- config.security (hashing)
get_password_hash(password) == <<"hashed", password>>

verify_password(plain_password, hashed_password) ==
    hashed_password = get_password_hash(plain_password)

\* ------------------------------------------------- CRUDBase / the User table
\* The row a User(...) constructor call of create makes.
NewUser(email, password, is_superuser) ==
    [email |-> email,
     hashed_password |-> get_password_hash(password),
     is_superuser |-> is_superuser,
     is_active |-> TRUE,
     following |-> <<>>]

\* user_crud.get(db, email=...): the first row with that email, or None.
GetByEmail(us, email) ==
    IF \E i \in 1..Len(us) : us[i].email = email
    THEN CHOOSE i \in 1..Len(us) :
            /\ us[i].email = email
            /\ \A j \in 1..Len(us) : us[j].email = email => i <= j
    ELSE None

\* user_crud.get(db, id=...): the row with that id, or None.
GetById(us, id) == IF id \in 1..Len(us) THEN id ELSE None

\* The unique constraint on User.email: row `id` may not take an email that
\* another row holds (id = None for a row being inserted).
EmailTaken(us, id, email) ==
    \E j \in 1..Len(us) : j # id /\ us[j].email = email

\* CRUDBase.update: every column of the row that the payload names takes the
\* payload's value; keys that are no column are ignored.
SetColumns(row, update_data) ==
    [f \in DOMAIN row |-> IF f \in DOMAIN update_data THEN update_data[f] ELSE row[f]]

\* ---------------------------------------------------------------- CRUDUser
is_active(user) == user.is_active

is_superuser(user) == user.is_superuser

Truthy(value) == value # ""

\* A CRUDUser.update that hashes whenever the key is present, empty or not.
UpdateData_HashAlways(obj_in) ==
    IF "password" \notin DOMAIN obj_in
    THEN [raised |-> "KeyError", update_data |-> obj_in]
    ELSE [raised |-> "ok",
          update_data |->
             [k \in (DOMAIN obj_in \ {"password"}) \cup {"hashed_password"} |->
                IF k = "hashed_password"
                THEN get_password_hash(obj_in["password"])
                ELSE obj_in[k]]]

\* A CRUDUser.update that strips the plaintext but forgets to hand on the hash.
UpdateData_DropPassword(obj_in) ==
    IF "password" \notin DOMAIN obj_in
    THEN [raised |-> "KeyError", update_data |-> obj_in]
    ELSE IF Truthy(obj_in["password"])
    THEN [raised |-> "ok",
          update_data |-> [k \in DOMAIN obj_in \ {"password"} |-> obj_in[k]]]
    ELSE [raised |-> "ok", update_data |-> obj_in]

\* CRUDUser.update, lines 38-45: the payload as handed on to CRUDBase.update,
\* or the KeyError that reading update_data["password"] raises.
UpdateData(obj_in) ==
    IF "password" \notin DOMAIN obj_in
    THEN [raised |-> "KeyError", update_data |-> obj_in]
    ELSE IF Truthy(obj_in["password"])
    THEN [raised |-> "ok",
          update_data |->
             [k \in (DOMAIN obj_in \ {"password"}) \cup {"hashed_password"} |->
                IF k = "hashed_password"
                THEN get_password_hash(obj_in["password"])
                ELSE obj_in[k]]]
    ELSE [raised |-> "ok", update_data |-> obj_in]

\* An authenticate that forgets to verify the password.
AuthenticateIn_SkipVerify(us, email, password) == GetByEmail(us, email)

\* CRUDUser.authenticate on the table `us`: the user's id, or None.
AuthenticateIn(us, email, password) ==
    LET user == GetByEmail(us, email) IN
    IF user = None THEN None
    ELSE IF ~verify_password(password, us[user].hashed_password) THEN None
    ELSE user

\* The update payloads a caller can pass: a dict over any subset of the keys.
Payloads ==
    UNION {
      { [k \in D |-> IF k = "password" THEN pw ELSE em] :
          pw \in (IF "password" \in D THEN Passwords ELSE {""}),
          em \in (IF "email" \in D THEN Emails ELSE {EmailSeq[1]}) }
      : D \in SUBSET PayloadKeys }

Create(email, password, su) ==
    /\ Len(users) < MaxUsers
    /\ IF EmailTaken(users, None, email)
       THEN /\ users' = users
            /\ last' = [op |-> "create", email |-> email, password |-> password,
                        result |-> "IntegrityError", ret |-> None]
       ELSE /\ users' = Append(users, NewUser(email, password, su))
            /\ last' = [op |-> "create", email |-> email, password |-> password,
                        result |-> "ok", ret |-> Len(users) + 1]
    /\ UNCHANGED <<settings, outbox, sess>>

Update(id, obj_in) ==
    /\ id \in 1..Len(users)
    /\ LET u == UpdateData(obj_in)
           row == SetColumns(users[id], u.update_data)
       IN
       IF u.raised # "ok"
       THEN /\ users' = users
            /\ last' = [op |-> "update", id |-> id, db_obj |-> users[id],
                        obj_in |-> obj_in,
                        result |-> u.raised, update_data |-> u.update_data,
                        ret |-> None]
       ELSE IF EmailTaken(users, id, row.email)
       THEN /\ users' = users
            /\ last' = [op |-> "update", id |-> id, db_obj |-> users[id],
                        obj_in |-> obj_in,
                        result |-> "IntegrityError", update_data |-> u.update_data,
                        ret |-> None]
       ELSE /\ users' = [users EXCEPT ![id] = row]
            /\ last' = [op |-> "update", id |-> id, db_obj |-> users[id],
                        obj_in |-> obj_in,
                        result |-> "ok", update_data |-> u.update_data,
                        ret |-> id]
    /\ UNCHANGED <<settings, outbox, sess>>

Authenticate(email, password) ==
    /\ users' = users
    /\ last' = [op |-> "authenticate", email |-> email, password |-> password,
                result |-> "ok", ret |-> AuthenticateIn(users, email, password)]
    /\ UNCHANGED <<settings, outbox, sess>>

\* ------------------------------------------------------------------ follow
NoDup(s) == \A i, j \in 1..Len(s) : s[i] = s[j] => i = j

\* list.remove(x): the list without its first x (x is in the list).
Remove(s, x) ==
    LET i == CHOOSE k \in 1..Len(s) : s[k] = x /\ \A j \in 1..(k - 1) : s[j] # x
    IN SubSeq(s, 1, i - 1) \o SubSeq(s, i + 1, Len(s))

\* The following relation as the table keeps it: a set of followed users, so
\* of a collection that names a user twice only the first entry is kept.
RECURSIVE Persisted(_)
Persisted(s) ==
    IF s = <<>> THEN <<>>
    ELSE LET front == Persisted(SubSeq(s, 1, Len(s) - 1))
             x == s[Len(s)]
         IN IF x \in Range(front) THEN front ELSE Append(front, x)

\* A follow in which an absent target is no error for unfollow.
FollowMutate_Discard(action, following, followed) ==
    IF action = "follow"
    THEN [raised |-> "ok", following |-> Append(following, followed)]
    ELSE IF action = "unfollow" /\ followed \in Range(following)
    THEN [raised |-> "ok", following |-> Remove(following, followed)]
    ELSE [raised |-> "ok", following |-> following]

\* A follow in which unfollow drops the oldest entry instead of the target.
FollowMutate_PopFirst(action, following, followed) ==
    IF action = "follow"
    THEN [raised |-> "ok", following |-> Append(following, followed)]
    ELSE IF action = "unfollow"
    THEN IF followed \in Range(following)
         THEN [raised |-> "ok", following |-> Tail(following)]
         ELSE [raised |-> "ValueError", following |-> following]
    ELSE [raised |-> "ok", following |-> following]

\* A follow whose second branch is a plain else.
FollowMutate_ElseUnfollow(action, following, followed) ==
    IF action = "follow"
    THEN [raised |-> "ok", following |-> Append(following, followed)]
    ELSE IF followed \in Range(following)
    THEN [raised |-> "ok", following |-> Remove(following, followed)]
    ELSE [raised |-> "ValueError", following |-> following]

\* follow, lines 70-73: the actor's collection after the branch on action, or
\* the ValueError of list.remove for a target that is not in it.
FollowMutate(action, following, followed) ==
    IF action = "follow"
    THEN [raised |-> "ok", following |-> Append(following, followed)]
    ELSE IF action = "unfollow"
    THEN IF followed \in Range(following)
         THEN [raised |-> "ok", following |-> Remove(following, followed)]
         ELSE [raised |-> "ValueError", following |-> following]
    ELSE [raised |-> "ok", following |-> following]

\* A save that writes the in-memory list as it is.
FollowCommit_Raw(us, id, following) ==
    [us EXCEPT ![id].following = following]

\* A save that only adds what the table does not hold yet.
FollowCommit_Merge(us, id, following) ==
    [us EXCEPT ![id].following = Persisted(us[id].following \o following)]

\* follow, lines 75-77: add, commit and refresh write the actor's record.
FollowCommit(us, id, following) ==
    [us EXCEPT ![id].following = Persisted(following)]

\* The call before this one, when it was a successful follow("follow", ...)
\* of the same target by the same actor: the actor's collection before it.
PrevFollow(user_id, current_user_id) ==
    IF /\ last.op = "follow"
       /\ last.action = "follow"
       /\ last.result = "ok"
       /\ last.user_id = user_id
       /\ last.current_user_id = current_user_id
       /\ user_id # None
    THEN [is |-> TRUE, before |-> last.before]
    ELSE [is |-> FALSE, before |-> <<>>]

FollowCall(action, user_id, current_user_id, result, ret) ==
    [op |-> "follow", action |-> action, user_id |-> user_id,
     current_user_id |-> current_user_id, result |-> result, ret |-> ret,
     before |-> IF current_user_id \in 1..Len(users)
                THEN users[current_user_id].following ELSE <<>>,
     prev_follow |-> PrevFollow(user_id, current_user_id)]

Follow(action, user_id, current_user_id) ==
    LET follower_user == GetById(users, current_user_id)
        followed_user == GetById(users, user_id)
    IN
    /\ \/ \* no such actor: None.following, or db.add(None) for another action
          /\ follower_user = None
          /\ users' = users
          /\ last' = FollowCall(action, user_id, current_user_id,
                                IF action \in {"follow", "unfollow"}
                                THEN "AttributeError" ELSE "UnmappedInstanceError",
                                None)
       \/ \* no such target: appending None either raises or is skipped by the
          \* flush, and the table stays as it was
          /\ follower_user # None
          /\ followed_user = None
          /\ action = "follow"
          /\ users' = users
          /\ \E outcome \in {[result |-> "ok", ret |-> follower_user],
                             [result |-> "error", ret |-> None]} :
                last' = FollowCall(action, user_id, current_user_id,
                                   outcome.result, outcome.ret)
       \/ /\ follower_user # None
          /\ ~(followed_user = None /\ action = "follow")
          /\ LET m == FollowMutate(action, users[follower_user].following,
                                   followed_user)
             IN IF m.raised # "ok"
                THEN /\ users' = users
                     /\ last' = FollowCall(action, user_id, current_user_id,
                                           m.raised, None)
                ELSE /\ users' = FollowCommit(users, follower_user, m.following)
                     /\ last' = FollowCall(action, user_id, current_user_id,
                                           "ok", follower_user)
    /\ UNCHANGED <<settings, outbox, sess>>

\* --------------------------------------------------- follow, step by step
Procs == {1, 2}

Idle == [pc |-> "idle"]

\* Lines 67-68: the session loads the actor and the target.
Load(p) ==
    /\ sess[p].pc = "load"
    /\ sess' = [sess EXCEPT ![p].pc = "mutate",
                            ![p].original = users[sess[p].current_user_id].following,
                            ![p].following = users[sess[p].current_user_id].following]
    /\ UNCHANGED <<users, last, settings, outbox>>

\* Lines 70-73: the branch on action changes the loaded collection.
Mutate(p) ==
    /\ sess[p].pc = "mutate"
    /\ LET m == FollowMutate(sess[p].action, sess[p].following, sess[p].user_id)
       IN sess' = [sess EXCEPT ![p].pc = IF m.raised = "ok" THEN "commit" ELSE "done",
                               ![p].following = m.following,
                               ![p].result = m.raised]
    /\ UNCHANGED <<users, last, settings, outbox>>

\* Lines 75-77: add, commit, refresh.
Commit(p) ==
    /\ sess[p].pc = "commit"
    /\ users' = FollowCommit(users, sess[p].current_user_id, sess[p].following)
    /\ sess' = [sess EXCEPT ![p].pc = "done",
                            ![p].following = users'[sess[p].current_user_id].following]
    /\ UNCHANGED <<last, settings, outbox>>

\* -------------------------------------------------------------- send_email
\* A send_email that checks the configuration after sending.
SendEmailOutcome_AssertLast(st, email_to, subject) ==
    [raised |-> IF st.EMAILS_ENABLED THEN "ok" ELSE "AssertionError",
     built |-> TRUE,
     sent |-> <<[to |-> email_to, subject |-> subject,
                 smtp |-> {"host", "port"}
                          \cup (IF st.SMTP_TLS THEN {"tls"} ELSE {})
                          \cup (IF st.SMTP_USER THEN {"user"} ELSE {})
                          \cup (IF st.SMTP_PASSWORD THEN {"password"} ELSE {})]>>]

\* send_email, lines 87-101: what it raises, whether it built a message, and
\* the messages it handed to SMTP.
SendEmailOutcome(st, email_to, subject) ==
    IF ~st.EMAILS_ENABLED
    THEN [raised |-> "AssertionError", built |-> FALSE, sent |-> <<>>]
    ELSE [raised |-> "ok",
          built |-> TRUE,
          sent |-> <<[to |-> email_to, subject |-> subject,
                      smtp |-> {"host", "port"}
                               \cup (IF st.SMTP_TLS THEN {"tls"} ELSE {})
                               \cup (IF st.SMTP_USER THEN {"user"} ELSE {})
                               \cup (IF st.SMTP_PASSWORD THEN {"password"} ELSE {})]>>]

MailCall(op, email_to, o) ==
    [op |-> op, email_to |-> email_to, result |-> o.raised, built |-> o.built]

SendEmail(email_to) ==
    LET o == SendEmailOutcome(settings, email_to, "custom") IN
    /\ Len(outbox) + Len(o.sent) <= MaxSent
    /\ outbox' = outbox \o o.sent
    /\ last' = MailCall("send_email", email_to, o)
    /\ UNCHANGED <<users, settings, sess>>

\* send_reset_password_email and send_new_account_email: read the template
\* file (which is there or is not), then call send_email.
SendTemplateEmail(op, email_to, subject, template_found) ==
    LET o == IF template_found
             THEN SendEmailOutcome(settings, email_to, subject)
             ELSE [raised |-> "FileNotFoundError", built |-> FALSE, sent |-> <<>>]
    IN
    /\ Len(outbox) + Len(o.sent) <= MaxSent
    /\ outbox' = outbox \o o.sent
    /\ last' = MailCall(op, email_to, o)
    /\ UNCHANGED <<users, settings, sess>>

SendResetPasswordEmail(email_to, template_found) ==
    SendTemplateEmail("send_reset_password_email", email_to, "reset_password",
                      template_found)

SendNewAccountEmail(email_to, template_found) ==
    SendTemplateEmail("send_new_account_email", email_to, "new_account",
                      template_found)

\* ---------------------------------------------------------- specifications
NoSettings == [EMAILS_ENABLED |-> FALSE, SMTP_TLS |-> FALSE,
               SMTP_USER |-> FALSE, SMTP_PASSWORD |-> FALSE]

Settings == [EMAILS_ENABLED : BOOLEAN, SMTP_TLS : BOOLEAN,
             SMTP_USER : BOOLEAN, SMTP_PASSWORD : BOOLEAN]

NoSessions == [p \in Procs |-> Idle]

\* The accounts: an empty table, then create, update and authenticate calls.
Init ==
    /\ users = <<>>
    /\ last = NoCall
    /\ settings = NoSettings
    /\ outbox = <<>>
    /\ sess = NoSessions

Next ==
    \/ \E email \in Emails, password \in Passwords, su \in BOOLEAN :
          Create(email, password, su)
    \/ \E id \in Ids, obj_in \in Payloads : Update(id, obj_in)
    \/ \E email \in Emails, password \in Passwords : Authenticate(email, password)

Spec == Init /\ [][Next]_vars

\* The table after MaxUsers create calls.
CreatedUsers == [i \in 1..MaxUsers |-> NewUser(EmailSeq[i], "p1", FALSE)]

\* The follow relation: the users exist, then follow calls one at a time.
InitFollow ==
    /\ users = CreatedUsers
    /\ last = NoCall
    /\ settings = NoSettings
    /\ outbox = <<>>
    /\ sess = NoSessions

NextFollow ==
    \E action \in ActionNames, user_id \in Ids \cup {None},
       current_user_id \in Ids \cup {None} :
          Follow(action, user_id, current_user_id)

SpecFollow == InitFollow /\ [][NextFollow]_vars

\* The collections follow calls can leave in the table: no user twice.
Followings ==
    {s \in UNION {[1..n -> Ids] : n \in 0..MaxUsers} : NoDup(s)}

\* Two follow calls of one actor, in flight at once, on a table that earlier
\* follow calls of the actor have filled.
InitConc ==
    /\ \E actor \in Ids, start \in Followings :
          /\ users = [CreatedUsers EXCEPT ![actor].following = start]
          /\ sess \in [Procs -> [pc : {"load"}, action : ActionNames,
                                 user_id : Ids, current_user_id : {actor},
                                 original : {<<>>}, following : {<<>>},
                                 result : {"running"}]]
    /\ last = NoCall
    /\ settings = NoSettings
    /\ outbox = <<>>

NextConc ==
    \E p \in Procs : Load(p) \/ Mutate(p) \/ Commit(p)

SpecConc == InitConc /\ [][NextConc]_vars

\* The e-mail helpers under every configuration.
InitMail ==
    /\ users = <<>>
    /\ last = NoCall
    /\ settings \in Settings
    /\ outbox = <<>>
    /\ sess = NoSessions

NextMail ==
    \/ \E email_to \in Emails : SendEmail(email_to)
    \/ \E email_to \in Emails, found \in BOOLEAN :
          SendResetPasswordEmail(email_to, found)
    \/ \E email_to \in Emails, found \in BOOLEAN :
          SendNewAccountEmail(email_to, found)

SpecMail == InitMail /\ [][NextMail]_vars

\* ======================================================= account claims
\* The call recorded in l was an update of user u that handed a new hash on.
PasswordUpdated(l, u) ==
    /\ l.op = "update"
    /\ l.id = u
    /\ l.result = "ok"
    /\ "hashed_password" \in DOMAIN l.update_data

\* A create that succeeded is followed by a state in which its credentials
\* authenticate as the new user.
C1_AfterCreate ==
    (last.op = "create" /\ last.result = "ok")
        => AuthenticateIn(users, last.email, last.password) = last.ret

\* authenticate raises nothing, and returns None both for an email no user has
\* and for a password that is not the one stored for the email's user.
C1_AbsentAlike ==
    last.op = "authenticate" =>
        /\ last.result = "ok"
        /\ (\A i \in 1..Len(users) : users[i].email # last.email) => last.ret = None
        /\ (\A i \in 1..Len(users) :
               users[i].email = last.email =>
                  users[i].hashed_password # get_password_hash(last.password))
              => last.ret = None

\* authenticate changes nothing that is stored.
C1_AuthenticateReadsOnly ==
    last'.op = "authenticate" => users' = users

\* C1 as stated: credentials that authenticate as user u keep doing so over
\* every call that is not a password update of u.
C1_KeptUnlessPassword ==
    \/ users' = users
    \/ \A u \in 1..Len(users), p \in Passwords :
       LET e == users[u].email IN
       (AuthenticateIn(users, e, p) = u /\ ~PasswordUpdated(last', u))
          => AuthenticateIn(users', e, p) = u

\* C1 amended: ... over every call that neither updates u's password nor
\* changes u's email.
C1_KeptUnlessPasswordOrEmail ==
    \/ users' = users
    \/ \A u \in 1..Len(users), p \in Passwords :
       LET e == users[u].email IN
       (/\ AuthenticateIn(users, e, p) = u
        /\ ~PasswordUpdated(last', u)
        /\ users'[u].email = users[u].email)
          => AuthenticateIn(users', e, p) = u

\* C1 (as stated): for every user created via create with (email, password)
\* whose password has not been updated since, authenticate(email, password)
\* returns that user; a wrong password and an unknown email both return None,
\* with no error and no change to stored state.
C1_Original ==
    [][/\ C1_AfterCreate'
       /\ C1_KeptUnlessPassword
       /\ C1_AbsentAlike'
       /\ C1_AuthenticateReadsOnly]_vars

\* C1 (amended): for every user created via create with (email, password)
\* whose password has not been updated and whose email has not been changed
\* since, authenticate(email, password) returns that user; a wrong password
\* and an unknown email both return None, with no error and no change to
\* stored state.
C1_Authenticate ==
    [][/\ C1_AfterCreate'
       /\ C1_KeptUnlessPasswordOrEmail
       /\ C1_AbsentAlike'
       /\ C1_AuthenticateReadsOnly]_vars

\* A user created with one password is authenticated with it after an update
\* of another field, and the same state holds a second user.
C1_Witness ==
    /\ last.op = "authenticate"
    /\ last.ret # None
    /\ last.password # ""
    /\ Len(users) = 2

\* C2: an update whose payload omits the password field skips hashing,
\* completes by persisting the remaining fields of the payload, and leaves the
\* stored hash unchanged (an update refused by the unique email constraint
\* aside).
C2_UpdateWithoutPassword ==
    (/\ last.op = "update"
     /\ "password" \notin DOMAIN last.obj_in
     /\ last.result # "IntegrityError")
       => /\ last.result = "ok"
          /\ \A k \in DOMAIN last.obj_in : users[last.id][k] = last.obj_in[k]
          /\ users[last.id].hashed_password = last.db_obj.hashed_password

\* After an update of user id with a new non-empty password that the old hash
\* does not verify: the stored hash is the hash of the new password, the new
\* password authenticates and no password the old hash verified does.
C3_AfterUpdate ==
    (/\ last.op = "update"
     /\ last.result = "ok"
     /\ "password" \in DOMAIN last.obj_in
     /\ Truthy(last.obj_in["password"])
     /\ ~verify_password(last.obj_in["password"], last.db_obj.hashed_password))
       => LET id == last.id
              email == users[id].email
          IN /\ users[id].hashed_password = get_password_hash(last.obj_in["password"])
             /\ AuthenticateIn(users, email, last.obj_in["password"]) = id
             /\ \A old \in Passwords :
                   verify_password(old, last.db_obj.hashed_password)
                      => AuthenticateIn(users, email, old) = None

\* Until another password update of u, every password gets the same answer
\* from authenticate for u's email.
C3_Later ==
    \/ users' = users
    \/ \A u \in 1..Len(users), p \in Passwords :
       ~PasswordUpdated(last', u)
          => AuthenticateIn(users', users'[u].email, p)
                = AuthenticateIn(users, users[u].email, p)

\* C3: after update is called on a user with a new non-empty password
\* different from the old one, the stored hash is the hash of the new
\* password, and in every later state (until another password update)
\* authenticate with the old password returns None while authenticate with
\* the new password returns the user.
C3_PasswordChange == [][C3_AfterUpdate' /\ C3_Later]_vars

\* A password was changed from one password to a different non-empty one.
C3_Witness ==
    /\ last.op = "update"
    /\ last.result = "ok"
    /\ "password" \in DOMAIN last.obj_in
    /\ Truthy(last.obj_in["password"])
    /\ ~verify_password(last.obj_in["password"], last.db_obj.hashed_password)
    /\ AuthenticateIn(users, users[last.id].email, last.obj_in["password"]) = last.id

\* C7 (as stated): an update whose payload contains the password field is a
\* hash-and-replace request for every value of the field, the empty string
\* included: afterwards the stored hash is the hash of the supplied value and
\* the plaintext password is not in the payload handed on for persistence.
C7_Original ==
    (/\ last.op = "update"
     /\ "password" \in DOMAIN last.obj_in
     /\ last.result # "IntegrityError")
       => /\ last.result = "ok"
          /\ users[last.id].hashed_password = get_password_hash(last.obj_in["password"])
          /\ "password" \notin DOMAIN last.update_data

\* C7 (amended): an update whose payload contains a non-empty password is a
\* hash-and-replace request: afterwards the stored hash is the hash of the
\* supplied value and the plaintext password is not in the payload handed on
\* for persistence.  An empty-string password is not hashed: the payload is
\* handed on as it came, the empty password field included, and the stored
\* hash stays what it was.
C7_HashAndReplace ==
    (/\ last.op = "update"
     /\ "password" \in DOMAIN last.obj_in
     /\ last.result # "IntegrityError")
       => /\ last.result = "ok"
          /\ IF Truthy(last.obj_in["password"])
             THEN /\ users[last.id].hashed_password
                        = get_password_hash(last.obj_in["password"])
                  /\ "password" \notin DOMAIN last.update_data
             ELSE /\ users[last.id].hashed_password = last.db_obj.hashed_password
                  /\ last.update_data = last.obj_in

\* An update replaced a stored hash by the hash of a different password.
C7_Witness ==
    /\ last.op = "update"
    /\ last.result = "ok"
    /\ "password" \in DOMAIN last.obj_in
    /\ Truthy(last.obj_in["password"])
    /\ last.db_obj.hashed_password # users[last.id].hashed_password
    /\ "password" \notin DOMAIN last.update_data

\* ======================================================== follow claims
Count(s, x) == Cardinality({i \in 1..Len(s) : s[i] = x})

\* The last call was follow(action, target, actor) with both users in the table.
FollowOf(l, action) ==
    /\ l.op = "follow"
    /\ l.action = action
    /\ l.user_id \in 1..Len(users)
    /\ l.current_user_id \in 1..Len(users)

C8_UnfollowAbsent ==
    [][(/\ FollowOf(last', "unfollow")
        /\ last'.user_id \notin Range(users[last'.current_user_id].following))
          => /\ last'.result = "ValueError"
             /\ last'.ret = None
             /\ \A u \in 1..Len(users) : users'[u].following = users[u].following
             /\ Len(users') = Len(users)]_vars

\* An unfollow of a target the actor does not follow, while following another.
C8_Witness ==
    /\ FollowOf(last, "unfollow")
    /\ last.result = "ValueError"
    /\ last.user_id \notin Range(users[last.current_user_id].following)
    /\ users[last.current_user_id].following # <<>>

\* C9: follow with an action string other than "follow" and "unfollow", for
\* existing actor and target, raises no error, changes no user's following
\* collection and no other user field, creates or deletes no user row, and
\* still commits and returns the unchanged actor.
C9_OtherAction ==
    [][(/\ last'.op = "follow"
        /\ last'.action \notin {"follow", "unfollow"}
        /\ last'.user_id \in 1..Len(users)
        /\ last'.current_user_id \in 1..Len(users))
          => /\ last'.result = "ok"
             /\ last'.ret = last'.current_user_id
             /\ users' = users]_vars

\* Another action, by an actor who follows the target.
C9_Witness ==
    /\ last.op = "follow"
    /\ last.action \notin {"follow", "unfollow"}
    /\ last.user_id \in 1..Len(users)
    /\ last.current_user_id \in 1..Len(users)
    /\ last.result = "ok"
    /\ last.user_id \in Range(users[last.current_user_id].following)

\* =================================================== concurrency claim
AllDone == \A p \in Procs : sess[p].pc = "done"

\* What call p alone makes of the collection s.
Apply(p, s) ==
    LET m == FollowMutate(sess[p].action, s, sess[p].user_id)
    IN IF m.raised = "ok" THEN Persisted(m.following) ELSE s

MailOps == {"send_email", "send_reset_password_email", "send_new_account_email"}

\* C6: send_email called while the email-enabled configuration flag is false
\* fails with an assertion error before any message is built or sent: no SMTP
\* send happens in that call.
C6_DisabledFailsFast ==
    ~settings.EMAILS_ENABLED =>
       /\ outbox = <<>>
       /\ last.op = "send_email" => (last.result = "AssertionError" /\ ~last.built)
       /\ last.op \in MailOps => last.result \in {"AssertionError", "FileNotFoundError"}

\* send_email was called with e-mail disabled and SMTP otherwise configured.
C6_Witness ==
    /\ ~settings.EMAILS_ENABLED
    /\ settings.SMTP_USER
    /\ last.op = "send_email"
    /\ last.result = "AssertionError"

====
